---------------------------- MODULE Spec2Model ----------------------------
(***************************************************************************)
(* State-machine model of FitnessTrackerApp (src/app.py): the two          *)
(* DataFrames kept in st.session_state, the two CSV files they are loaded  *)
(* from and saved to, the form's cached session values, and one action per *)
(* submit handler.  Every run of the script ends by rendering the overview *)
(* (run: _display_input_form, then _display_overview), which the variable  *)
(* overview records.                                                       *)
(*                                                                         *)
(* Specifications.                                                         *)
(*   - Spec: the handlers, with a data directory that stays writable and   *)
(*     the overview's widgets left at their initial values.                *)
(*   - SpecForms: Spec without the two table editors.                      *)
(*   - SpecFaults: Spec with a data directory that may stop being          *)
(*     writable, so that _save_data can raise.                             *)
(*   - SpecOverview: the overview's widgets, over stored metrics tables.   *)
(*   - SpecDuration: the duration inputs of the activity form stored as    *)
(*     seconds and decomposed again.                                       *)
(*   - SpecCalendar: the month cursor of the Calendar View page            *)
(*     (src/pages/2_..._Calendar_View.py) and its two buttons, in a        *)
(*     session that holds the data the page asks for.                      *)
(*                                                                         *)
(* Representation.                                                         *)
(*   - A cell of a DataFrame is an optional value: None (pandas None/NaN)  *)
(*     is the empty tuple, a present value v is the one-tuple <<v>>.       *)
(*   - The Date column holds a calendar date as the day number of 2024     *)
(*     (1 = 2024-01-01), the order pandas Timestamps compare in.           *)
(*   - Decimal quantities are integers in the unit of the column.          *)
(*   - A DataFrame is [columns, rows]; a row is a function from the column *)
(*     labels to cells.  A CSV file is [exists, header, lines]; a line is  *)
(*     a function from the header labels to text fields.                   *)
(*   - Activity labels are written without their emoji prefix.             *)
(***************************************************************************)
EXTENDS Integers, Sequences, FiniteSets, TLC

VARIABLES
    metrics,          \* st.session_state['metrics']
    activities,       \* st.session_state['activities']
    metrics_file,     \* the file at self._metrics_file_path
    activities_file,  \* the file at self._activites_file_path
    form_date,        \* st.session_state.form_date
    form,             \* st.session_state.weight_kg .. fat (the form widgets' values)
    storage,          \* environment: whether the two files can be written
    today,            \* environment: datetime.now().date()
    widgets,          \* the overview's widgets: horizon, ma_window, show_ma
    overview,         \* what _display_overview put on the page in the last run
    act,              \* the activity form's duration: act_h, act_m, act_s, duration_s
    calendar_year,    \* st.session_state.calendar_year (None while not set)
    calendar_month,   \* st.session_state.calendar_month (None while not set)
    last,             \* history: the handler that ran last and what it was given
    nops              \* history: number of handlers run so far

vars == <<metrics, activities, metrics_file, activities_file,
          form_date, form, storage, today, widgets, overview, act,
          calendar_year, calendar_month, last, nops>>

-----------------------------------------------------------------------------
\* Bounds of the model.

\* Number of submit handlers (and session restarts) run in one behaviour.
MaxOps == 2


-----------------------------------------------------------------------------
\* Cells.

None == <<>>

Some(v) == <<v>>

\* pd.isna / pd.notna on a cell.
isna(cell) == cell = None

notna(cell) == cell # None

ToSet(seq) == {seq[i] : i \in DOMAIN seq}

-----------------------------------------------------------------------------
\* Configuration constants of FitnessTrackerApp.

CARDIO_ACTIVITY_LIST ==
    <<"None", "Running", "Trail Running", "Biking", "Swimming", "Hiking",
      "Walking", "Backpacking">>

STRENGTH_ACTIVITY_LIST ==
    <<"None", "Full Body", "Arms", "Legs", "Core", "Back">>

METRICS_COLUMNS ==
    <<"Date", "Weight (kg)", "Waist (cm)", "Daily Calories (kCal)",
      "Carbs (g)", "Protein (g)", "Fat (g)", "Active Calories (kCal)">>

ACTIVITIES_COLUMNS ==
    <<"Date", "Type", "Activity", "Duration (s)", "Distance (mi)",
      "Calories (kCal)">>

\* The columns read_csv is told to read as text (dtype "str").
STR_COLUMNS == {"Type", "Activity"}


\* The values read_csv turns into NaN by default (pandas 2.x), also in a
\* column whose dtype is given as "str".
NA_VALUES ==
    {"", "#N/A", "#N/A N/A", "#NA", "-1.#IND", "-1.#QNAN", "-NaN", "-nan",
     "1.#IND", "1.#QNAN", "<NA>", "N/A", "NA", "NULL", "NaN", "None", "n/a",
     "nan", "null"}

-----------------------------------------------------------------------------
\* Dates and their text form.

DaysInMonth == <<31, 29, 31, 30, 31, 30, 31, 31, 30, 31, 30, 31>>

RECURSIVE DaysBeforeMonth(_)
DaysBeforeMonth(m) ==
    IF m = 1 THEN 0 ELSE DaysBeforeMonth(m - 1) + DaysInMonth[m - 1]

RECURSIVE MonthOf(_, _)
MonthOf(day, m) ==
    IF day <= DaysInMonth[m] THEN m ELSE MonthOf(day - DaysInMonth[m], m + 1)

\* Series.dt.strftime('%m/%d/%Y'): the text <<MM, DD, YYYY>> of a date.
strftime(date) ==
    LET m == MonthOf(date, 1)
    IN  <<m, date - DaysBeforeMonth(m), 2024>>

\* pd.to_datetime on a text "MM/DD/YYYY": month first, then day.
to_datetime(text) == DaysBeforeMonth(text[1]) + text[2]

-----------------------------------------------------------------------------
\* DataFrames.

DataFrame(columns, rows) == [columns |-> columns, rows |-> rows]

\* df[df['Date'] == date]: the rows of that date, in table order.
RowsOn(rows, date) ==
    LET OnDate(r) == r["Date"] = date
    IN  SelectSeq(rows, OnDate)

\* Place row r after every row of `sorted` whose date is not later.
RECURSIVE InsertAscending(_, _)
InsertAscending(r, sorted) ==
    IF sorted = <<>> THEN <<r>>
    ELSE IF Head(sorted)["Date"] <= r["Date"]
         THEN <<Head(sorted)>> \o InsertAscending(r, Tail(sorted))
         ELSE <<r>> \o sorted

\* df.sort_values(by='Date').reset_index(drop=True); rows of one date keep
\* the order they had.
RECURSIVE sort_values(_)
sort_values(rows) ==
    IF rows = <<>> THEN <<>>
    ELSE InsertAscending(rows[Len(rows)],
                         sort_values(SubSeq(rows, 1, Len(rows) - 1)))

RECURSIVE InsertDescending(_, _)
InsertDescending(r, sorted) ==
    IF sorted = <<>> THEN <<r>>
    ELSE IF Head(sorted)["Date"] >= r["Date"]
         THEN <<Head(sorted)>> \o InsertDescending(r, Tail(sorted))
         ELSE <<r>> \o sorted

\* df.sort_values(by='Date', ascending=False): the order the editors show.
RECURSIVE sort_values_descending(_)
sort_values_descending(rows) ==
    IF rows = <<>> THEN <<>>
    ELSE InsertDescending(rows[Len(rows)],
                          sort_values_descending(SubSeq(rows, 1, Len(rows) - 1)))

-----------------------------------------------------------------------------
\* CSV files.

NotFound == [exists |-> FALSE, header |-> <<>>, lines |-> <<>>]

\* One field as read_csv parses it: the Date text is kept for to_datetime,
\* an empty field is NaN, and in a text column so is every NA_VALUES word.
ParseField(column, text) ==
    IF column = "Date" THEN text
    ELSE IF text = <<>> THEN None
    ELSE IF column \in STR_COLUMNS /\ text[1] \in NA_VALUES THEN None
    ELSE text

\* pd.read_csv(path) of a file that exists.
read_csv(file) ==
    DataFrame(file.header,
              [i \in DOMAIN file.lines |->
                  [c \in ToSet(file.header) |-> ParseField(c, file.lines[i][c])]])

\* Fault seeded in LoadData: a missing file gives a table without columns.
LoadData_NoColumns(file, COLUMNS) ==
    IF ~file.exists THEN DataFrame(<<>>, <<>>)
    ELSE LET df == read_csv(file)
             Filled(row) ==
                 [c \in ToSet(COLUMNS) |->
                     IF c \notin ToSet(df.columns) THEN None
                     ELSE IF c = "Date" THEN to_datetime(row[c])
                     ELSE row[c]]
         IN  DataFrame(COLUMNS,
                       sort_values([i \in DOMAIN df.rows |-> Filled(df.rows[i])]))

\* The body shared by _load_metrics_data and _load_activities_data: read,
\* back-fill the missing columns with None, keep the canonical columns in
\* order, parse the dates, sort by date.  A missing file gives the empty
\* table with the canonical columns.
LoadData(file, COLUMNS) ==
    IF ~file.exists THEN DataFrame(COLUMNS, <<>>)
    ELSE LET df == read_csv(file)
             Filled(row) ==
                 [c \in ToSet(COLUMNS) |->
                     IF c \notin ToSet(df.columns) THEN None
                     ELSE IF c = "Date" THEN to_datetime(row[c])
                     ELSE row[c]]
         IN  DataFrame(COLUMNS,
                       sort_values([i \in DOMAIN df.rows |-> Filled(df.rows[i])]))

_load_metrics_data(file) == LoadData(file, METRICS_COLUMNS)

_load_activities_data(file) == LoadData(file, ACTIVITIES_COLUMNS)

\* One cell as to_csv writes it: None is the empty field.
FormatField(column, cell) ==
    IF column = "Date" THEN strftime(cell)
    ELSE IF isna(cell) THEN <<>>
    ELSE cell

\* The copy with 'Date' formatted by strftime, written by to_csv(index=False):
\* the file is overwritten whole.
to_csv(df) ==
    [exists |-> TRUE,
     header |-> df.columns,
     lines  |-> [i \in DOMAIN df.rows |->
                    [c \in ToSet(df.columns) |-> FormatField(c, df.rows[i][c])]]]

-----------------------------------------------------------------------------
\* What the user can enter.  The dates picked are 2024-01-31 and 2024-02-01.
\* number_input gives None for an empty field of the metrics forms (their
\* session values start as None); the activity form's fields start at 0 and
\* have no lower limit.

Dates == {31, 32}

WeightInputs == {None, Some(80), Some(81)}

WaistInputs == {None, Some(90)}

DailyCaloriesInputs == {None, Some(2000)}

CarbsInputs == {None, Some(250)}

ProteinInputs == {Some(120)}

FatInputs == {Some(70)}

ActivityTypeInputs == {"Cardio", "Strength"}

\* The selectbox offers the list of the chosen type.
ActivityInputs(activity_type) ==
    IF activity_type = "Cardio"
    THEN {"None"} \cap ToSet(CARDIO_ACTIVITY_LIST)
    ELSE {"Arms"} \cap ToSet(STRENGTH_ACTIVITY_LIST)

HoursInputs == {1}

MinutesInputs == {23}

SecondsInputs == {45}

DistanceInputs == {3}

ActivityCaloriesInputs == {-50, 0, 150, 300}

\* One cell edit of st.data_editor (num_rows is "fixed": no row is added or
\* deleted): the column and the cell's new content.
MetricsEdits ==
    ({"Date"} \X Dates)
    \cup ({"Weight (kg)"} \X {None})
    \cup ({"Waist (cm)"} \X {Some(90)})
    \cup ({"Active Calories (kCal)"} \X {Some(150)})

ActivitiesEdits ==
    ({"Date"} \X Dates)
    \cup ({"Calories (kCal)"} \X {Some(150)})

-----------------------------------------------------------------------------
\* The handlers' computations.

\* _get_value(entry_data, column, None): the cell of the first row of the
\* date, None when there is no row or the cell is NaN.
_get_value(entry_data, column) ==
    IF entry_data # <<>> /\ notna(entry_data[1][column])
    THEN entry_data[1][column]
    ELSE None

\* The form's session values as loaded when the selected date changes.
FormDefaults(df, date) ==
    LET entry_data == RowsOn(df.rows, date)
    IN  [weight_kg      |-> _get_value(entry_data, "Weight (kg)"),
         waist_cm       |-> _get_value(entry_data, "Waist (cm)"),
         daily_calories |-> _get_value(entry_data, "Daily Calories (kCal)"),
         carbs          |-> _get_value(entry_data, "Carbs (g)"),
         protein        |-> _get_value(entry_data, "Protein (g)"),
         fat            |-> _get_value(entry_data, "Fat (g)")]

\* Fault seeded in MergeRow: the row of the date is replaced by a row of
\* None updated with new_row_data, instead of being assigned field by field.
MergeRow_ReplaceRow(rows, date, new_row_data) ==
    LET entry_exists == RowsOn(rows, date) # <<>>
        full_new_row ==
            [c \in ToSet(METRICS_COLUMNS) |->
                IF c \in DOMAIN new_row_data THEN new_row_data[c] ELSE None]
    IN  sort_values(
            IF entry_exists
            THEN [i \in DOMAIN rows |->
                    IF rows[i]["Date"] = date THEN full_new_row ELSE rows[i]]
            ELSE Append(rows, full_new_row))

\* Fault seeded in MergeRow: the new row is concatenated without looking
\* for a row of the date.
MergeRow_AlwaysAppend(rows, date, new_row_data) ==
    sort_values(Append(rows,
        [c \in ToSet(METRICS_COLUMNS) |->
            IF c \in DOMAIN new_row_data THEN new_row_data[c] ELSE None]))

\* The body of both save handlers: with a row of that date, every key of
\* new_row_data is assigned in every row of the date; without one, a row of
\* None updated with new_row_data is concatenated.  Then the table is sorted.
MergeRow(rows, date, new_row_data) ==
    LET entry_exists == RowsOn(rows, date) # <<>>
        Assigned(row) ==
            [c \in DOMAIN row |->
                IF c \in DOMAIN new_row_data THEN new_row_data[c] ELSE row[c]]
        full_new_row ==
            [c \in ToSet(METRICS_COLUMNS) |->
                IF c \in DOMAIN new_row_data THEN new_row_data[c] ELSE None]
    IN  sort_values(
            IF entry_exists
            THEN [i \in DOMAIN rows |->
                    IF rows[i]["Date"] = date THEN Assigned(rows[i]) ELSE rows[i]]
            ELSE Append(rows, full_new_row))

\* Fault seeded in UpdateActiveCalories: the activity's calories replace
\* the stored Active Calories instead of being added to them.
UpdateActiveCalories_Overwrite(rows, date, calories) ==
    IF calories # 0 /\ calories > 0
    THEN LET entry_exists == RowsOn(rows, date) # <<>>
             new_row_data ==
                 [c \in ToSet(METRICS_COLUMNS) |->
                     IF c = "Date" THEN date
                     ELSE IF c = "Active Calories (kCal)" THEN Some(calories)
                     ELSE None]
         IN  sort_values(
                 IF entry_exists
                 THEN [i \in DOMAIN rows |->
                         IF rows[i]["Date"] = date
                         THEN [rows[i] EXCEPT !["Active Calories (kCal)"] =
                                                Some(calories)]
                         ELSE rows[i]]
                 ELSE Append(rows, new_row_data))
    ELSE rows

\* Fault seeded in UpdateActiveCalories: a row is concatenated without
\* looking for a row of the date.
UpdateActiveCalories_AlwaysAppend(rows, date, calories) ==
    IF calories # 0 /\ calories > 0
    THEN sort_values(Append(rows,
             [c \in ToSet(METRICS_COLUMNS) |->
                 IF c = "Date" THEN date
                 ELSE IF c = "Active Calories (kCal)" THEN Some(calories)
                 ELSE None]))
    ELSE rows

\* Fault seeded in UpdateActiveCalories: no pd.isna test, so that NaN plus
\* the calories stays NaN.
UpdateActiveCalories_NaN(rows, date, calories) ==
    IF calories # 0 /\ calories > 0
    THEN LET entry_exists == RowsOn(rows, date) # <<>>
             current_calories == RowsOn(rows, date)[1]["Active Calories (kCal)"]
             new_row_data ==
                 [c \in ToSet(METRICS_COLUMNS) |->
                     IF c = "Date" THEN date
                     ELSE IF c = "Active Calories (kCal)" THEN Some(calories)
                     ELSE None]
         IN  sort_values(
                 IF entry_exists
                 THEN [i \in DOMAIN rows |->
                         IF rows[i]["Date"] = date
                         THEN [rows[i] EXCEPT !["Active Calories (kCal)"] =
                                 IF isna(current_calories) THEN None
                                 ELSE Some(current_calories[1] + calories)]
                         ELSE rows[i]]
                 ELSE Append(rows, new_row_data))
    ELSE rows

\* "Update Active Calories in metrics" of the Add Activity handler.
UpdateActiveCalories(rows, date, calories) ==
    IF calories # 0 /\ calories > 0
    THEN LET entry_exists == RowsOn(rows, date) # <<>>
             current_calories ==
                 LET c == RowsOn(rows, date)[1]["Active Calories (kCal)"]
                 IN  IF isna(c) THEN 0 ELSE c[1]
             new_row_data ==
                 [c \in ToSet(METRICS_COLUMNS) |->
                     IF c = "Date" THEN date
                     ELSE IF c = "Active Calories (kCal)" THEN Some(calories)
                     ELSE None]
         IN  sort_values(
                 IF entry_exists
                 THEN [i \in DOMAIN rows |->
                         IF rows[i]["Date"] = date
                         THEN [rows[i] EXCEPT !["Active Calories (kCal)"] =
                                                Some(current_calories + calories)]
                         ELSE rows[i]]
                 ELSE Append(rows, new_row_data))
    ELSE rows

\* The Add Activity handler's new_activity_data.
NewActivity(date, activity_type, activity, hours, minutes, seconds, distance, calories) ==
    [c \in ToSet(ACTIVITIES_COLUMNS) |->
        CASE c = "Date"            -> date
          [] c = "Type"            -> Some(activity_type)
          [] c = "Activity"        -> Some(activity)
          [] c = "Duration (s)"    -> Some((hours * 3600) + (minutes * 60) + seconds)
          [] c = "Distance (mi)"   -> Some(distance)
          [] c = "Calories (kCal)" -> Some(calories)]

\* Fault seeded in AppendActivity: an activity equal to one in the log is
\* not appended.
AppendActivity_Dedupe(rows, new_activity_data) ==
    IF \E i \in DOMAIN rows : rows[i] = new_activity_data
    THEN rows
    ELSE sort_values(Append(rows, new_activity_data))

\* Fault seeded in AppendActivity: the log is not sorted after the append.
AppendActivity_NoSort(rows, new_activity_data) ==
    Append(rows, new_activity_data)

\* pd.concat([activities_df, new_df]) followed by sort_values.
AppendActivity(rows, new_activity_data) ==
    sort_values(Append(rows, new_activity_data))

\* edited_df.replace('', None): an empty text becomes None.
ReplaceEmpty(column, cell) ==
    IF column \in STR_COLUMNS /\ cell = Some("") THEN None ELSE cell

\* What st.data_editor returns: the table in descending date order with the
\* cell of row i, column `column` edited to `value`.
data_editor(rows, i, column, value) ==
    [sort_values_descending(rows) EXCEPT ![i][column] = value]

\* What a "Save ... Changes" button stores: the editor's table with ''
\* replaced by None, sorted by date.
ReplaceTable(rows, i, column, value) ==
    LET edited == data_editor(rows, i, column, value)
    IN  sort_values([k \in DOMAIN edited |->
                        [c \in DOMAIN edited[k] |-> ReplaceEmpty(c, edited[k][c])]])

-----------------------------------------------------------------------------
\* The overview (_display_overview).  Its numbers are kept exact: a mean is
\* the fraction <<sum, count>>, NaN is None.

horizon_options ==
    <<"1 Week", "2 Weeks", "1 Month", "3 Months", "6 Months", "1 Year",
      "5 Years", "All Time">>

days_map ==
    ("1 Week" :> 7) @@ ("2 Weeks" :> 14) @@ ("1 Month" :> 31)
    @@ ("3 Months" :> 90) @@ ("6 Months" :> 180) @@ ("1 Year" :> 365)
    @@ ("5 Years" :> 5 * 365)

DAILY_NET_INTAKE == 2000

\* The widgets as the first run of the script shows them.
DefaultWidgets ==
    [horizon |-> horizon_options[3], ma_window |-> 7, show_ma |-> TRUE]

\* data[column]: the cells of one column, in row order.
Column(rows, column) == [i \in DOMAIN rows |-> rows[i][column]]

RECURSIVE SumCells(_)
SumCells(cells) ==
    IF cells = <<>> THEN 0 ELSE Head(cells)[1] + SumCells(Tail(cells))

\* Series.mean(): NaN cells are skipped, the mean of nothing is NaN.
mean(cells) ==
    LET present == SelectSeq(cells, notna)
    IN  IF present = <<>> THEN None ELSE <<SumCells(present), Len(present)>>

\* a - b on floats: NaN when either side is NaN.
Minus(a, b) == IF isna(a) \/ isna(b) THEN None ELSE Some(a[1] - b[1])

\* f"{x:.0f}" of the fraction x: the nearest integer, a tie to the even one.
Format0f(x) ==
    LET q == x[1] \div x[2]
        r == x[1] % x[2]
    IN  IF 2 * r < x[2] THEN q
        ELSE IF 2 * r > x[2] THEN q + 1
        ELSE IF q % 2 = 0 THEN q ELSE q + 1

\* data[(data['Date'] >= start) & (data['Date'] <= end)]
Between(rows, start, end) ==
    LET Within(r) == r["Date"] >= start /\ r["Date"] <= end
    IN  SelectSeq(rows, Within)

\* The first metric cell: the weights of the first two rows of the table
\* sorted by date, latest first.
latest_weight(data) == data[1]["Weight (kg)"]

previous_weight(data) ==
    IF Len(data) > 1 THEN data[2]["Weight (kg)"] ELSE Some(0)

delta(data) == Minus(latest_weight(data), previous_weight(data))

\* avg_calories without the pd.notna test: a NaN mean is formatted as a number.
avg_calories_ShowsNaN(data, now) ==
    LET start_of_week == now - 6
        weekly_data   == Between(data, start_of_week, now)
        avg           == mean(Column(weekly_data, "Daily Calories (kCal)"))
    IN  [text  |-> "kCal",
         value |-> IF notna(avg) THEN Some(Format0f(avg)) ELSE None,
         delta |-> None,
         mean  |-> avg]

\* The second metric cell: the mean of the daily calories of the seven days
\* ending today, "N/A" when it is NaN.
avg_calories(data, now) ==
    LET start_of_week == now - 6
        weekly_data   == Between(data, start_of_week, now)
        avg           == mean(Column(weekly_data, "Daily Calories (kCal)"))
    IN  IF notna(avg)
        THEN [text  |-> "kCal",
              value |-> Some(Format0f(avg)),
              delta |-> Some(Format0f(<<avg[1] - DAILY_NET_INTAKE * avg[2], avg[2]>>)),
              mean  |-> avg]
        ELSE [text |-> "N/A", value |-> None, delta |-> None, mean |-> None]

\* start_date counting today as the first of the horizon's days.
start_date_CountsToday(data, now, horizon) ==
    IF horizon # "All Time"
    THEN now - days_map[horizon] + 1
    ELSE CHOOSE d \in {r["Date"] : r \in ToSet(data)} :
            \A r \in ToSet(data) : d <= r["Date"]

\* The first day of the chart's time horizon.
start_date(data, now, horizon) ==
    IF horizon # "All Time"
    THEN now - days_map[horizon]
    ELSE CHOOSE d \in {r["Date"] : r \in ToSet(data)} :
            \A r \in ToSet(data) : d <= r["Date"]

\* rolling_mean with min_periods left at its default, the window size: NaN
\* unless every row of a full window has a value.
rolling_mean_FullWindowsOnly(cells, window) ==
    [i \in DOMAIN cells |->
        LET rows == SubSeq(cells, IF i - window + 1 > 1 THEN i - window + 1 ELSE 1, i)
        IN  IF Len(SelectSeq(rows, notna)) < window THEN None ELSE mean(rows)]

\* Series.rolling(window, min_periods=1).mean(): for every row the mean of
\* the rows of the window that ends at it.
rolling_mean(cells, window) ==
    [i \in DOMAIN cells |->
        mean(SubSeq(cells, IF i - window + 1 > 1 THEN i - window + 1 ELSE 1, i))]

\* An overview with nothing on it but a message.
Blank(status) ==
    [status          |-> status,
     latest_weight   |-> None,
     previous_weight |-> None,
     delta           |-> None,
     avg_calories    |-> [text |-> "", value |-> None, delta |-> None, mean |-> None],
     start_date      |-> None,
     chart           |-> <<>>,
     MA              |-> <<>>]

\* _display_overview: what is shown for the session's metrics table.
_display_overview(df, now, w) ==
    LET data == sort_values_descending(df.rows)
    IN  IF data = <<>> THEN Blank("No data available to display")
        ELSE
          LET start         == start_date(data, now, w.horizon)
              filtered_data == Between(data, start, now)
              chart_data    == sort_values(filtered_data)
              cells         == [Blank("shown") EXCEPT
                                  !.latest_weight   = latest_weight(data),
                                  !.previous_weight = previous_weight(data),
                                  !.delta           = delta(data),
                                  !.avg_calories    = avg_calories(data, now),
                                  !.start_date      = Some(start)]
          IN  IF filtered_data = <<>>
              THEN [cells EXCEPT !.status = "No data in the selected time horizon"]
              ELSE [cells EXCEPT
                      !.chart = [i \in DOMAIN chart_data |->
                                    [Date   |-> chart_data[i]["Date"],
                                     Weight |-> chart_data[i]["Weight (kg)"]]],
                      !.MA    = IF w.show_ma
                                THEN rolling_mean(Column(chart_data, "Weight (kg)"),
                                                  w.ma_window)
                                ELSE <<>>]

-----------------------------------------------------------------------------
\* The state after construction and the first run of the script.

\* A metrics file of an earlier schema: fewer columns, lines in entry order.
LegacyMetricsFile ==
    [exists |-> TRUE,
     header |-> <<"Date", "Weight (kg)">>,
     lines  |-> <<("Date" :> strftime(32)) @@ ("Weight (kg)" :> Some(81)),
                  ("Date" :> strftime(31)) @@ ("Weight (kg)" :> Some(80))>>]

InitialMetricsFiles == {NotFound, LegacyMetricsFile}

InitialActivitiesFiles == {NotFound}

\* The activity form before anything is entered in it.
NoDuration ==
    [hours |-> 0, minutes |-> 0, seconds |-> 0, duration_s |-> None, hms |-> <<>>]

\* __init__ loads both tables; _display_input_form then sets form_date to
\* the date input's value, which is today, and loads the form's session
\* values; _display_overview renders the overview.
Init ==
    /\ metrics_file \in InitialMetricsFiles
    /\ activities_file \in InitialActivitiesFiles
    /\ metrics = _load_metrics_data(metrics_file)
    /\ activities = _load_activities_data(activities_file)
    /\ form_date \in Dates
    /\ form = FormDefaults(metrics, form_date)
    /\ storage = "writable"
    /\ today = form_date
    /\ widgets = DefaultWidgets
    /\ overview = _display_overview(metrics, today, widgets)
    /\ act = NoDuration
    /\ calendar_year = None
    /\ calendar_month = None
    /\ last = [op |-> "load", date |-> form_date, data |-> <<>>, again |-> FALSE,
               saved |-> TRUE]
    /\ nops = 0

\* History: the handler op ran for `date` with `data`; again tells whether
\* the handler that ran before it was the same one with the same input.
\* saved tells whether the handler's _save_data returned.
Ran(op, date, data) ==
    [op |-> op, date |-> date, data |-> data,
     again |-> (last.op = op /\ last.date = date /\ last.data = data),
     saved |-> (storage = "writable")]

\* The conditions of the data directory: to_csv raises on the file that
\* cannot be written, and leaves it as it was.
StorageConditions == {"writable", "metrics unwritable", "activities unwritable"}

\* _save_data run before the handler has put its tables into the session:
\* the files get the tables as they were.
_save_data_BeforeMerge ==
    /\ metrics_file' = IF storage = "metrics unwritable"
                       THEN metrics_file
                       ELSE to_csv(metrics)
    /\ activities_file' = IF storage = "writable"
                          THEN to_csv(activities)
                          ELSE activities_file

\* _save_data with each to_csv in a try block of its own: the second file is
\* written although the first could not be.
_save_data_SwallowsError ==
    /\ metrics_file' = IF storage = "metrics unwritable"
                       THEN metrics_file
                       ELSE to_csv(metrics')
    /\ activities_file' = IF storage = "activities unwritable"
                          THEN activities_file
                          ELSE to_csv(activities')

\* _save_data: both files are overwritten from the session's tables, the
\* metrics file first.  An exception of the first to_csv leaves the second
\* one not run.
_save_data ==
    /\ metrics_file' = IF storage = "metrics unwritable"
                       THEN metrics_file
                       ELSE to_csv(metrics')
    /\ activities_file' = IF storage = "writable"
                          THEN to_csv(activities')
                          ELSE activities_file

\* The rest of the script's run: the overview is rendered from the session's
\* metrics table, unless an exception has ended the run before.
Rendered(reached) ==
    /\ overview' = IF reached
                   THEN _display_overview(metrics', today, widgets)
                   ELSE Blank("exception")
    /\ UNCHANGED <<storage, today, widgets, act, calendar_year, calendar_month>>

-----------------------------------------------------------------------------
\* The actions.

\* The user picks another date: the state-management block of
\* _display_input_form reloads the form's session values.
SelectDate(date_to_edit_input) ==
    /\ form_date # date_to_edit_input
    /\ form_date' = date_to_edit_input
    /\ form' = FormDefaults(metrics, date_to_edit_input)
    /\ UNCHANGED <<metrics, activities, metrics_file, activities_file, last, nops>>
    /\ Rendered(TRUE)

\* "Save Body Metrics" submitted with the two inputs of its form.
SaveBodyMetrics(weight_kg, waist_cm) ==
    LET date_to_edit == form_date
        new_row_data == ("Date" :> date_to_edit)
                        @@ ("Weight (kg)" :> weight_kg)
                        @@ ("Waist (cm)" :> waist_cm)
    IN  /\ nops < MaxOps
        /\ form' = [form EXCEPT !.weight_kg = weight_kg, !.waist_cm = waist_cm]
        /\ metrics' = DataFrame(metrics.columns,
                                MergeRow(metrics.rows, date_to_edit, new_row_data))
        /\ UNCHANGED <<activities, form_date>>
        /\ _save_data
        /\ Rendered(storage = "writable")
        /\ last' = Ran("Save Body Metrics", date_to_edit, new_row_data)
        /\ nops' = nops + 1

\* "Save Nutrition" submitted with the four inputs of its form.
SaveNutrition(daily_calories, carbs, protein, fat) ==
    LET date_to_edit == form_date
        new_row_data == ("Date" :> date_to_edit)
                        @@ ("Daily Calories (kCal)" :> daily_calories)
                        @@ ("Carbs (g)" :> carbs)
                        @@ ("Protein (g)" :> protein)
                        @@ ("Fat (g)" :> fat)
    IN  /\ nops < MaxOps
        /\ form' = [form EXCEPT !.daily_calories = daily_calories,
                                !.carbs = carbs,
                                !.protein = protein,
                                !.fat = fat]
        /\ metrics' = DataFrame(metrics.columns,
                                MergeRow(metrics.rows, date_to_edit, new_row_data))
        /\ UNCHANGED <<activities, form_date>>
        /\ _save_data
        /\ Rendered(storage = "writable")
        /\ last' = Ran("Save Nutrition", date_to_edit, new_row_data)
        /\ nops' = nops + 1

\* "Add Activity" submitted: the activity is appended, the active calories
\* of its date are updated, both tables are saved.
AddActivity(activity_type, activity, hours, minutes, seconds, distance, calories) ==
    LET date == form_date
        new_activity_data ==
            NewActivity(date, activity_type, activity, hours, minutes, seconds,
                        distance, calories)
    IN  /\ nops < MaxOps
        /\ activities' = DataFrame(activities.columns,
                                   AppendActivity(activities.rows, new_activity_data))
        /\ metrics' = DataFrame(metrics.columns,
                                UpdateActiveCalories(metrics.rows, date, calories))
        /\ UNCHANGED <<form_date, form>>
        /\ _save_data
        /\ Rendered(storage = "writable")
        /\ last' = Ran("Add Activity", date, new_activity_data)
        /\ nops' = nops + 1

\* "Save Measurement Changes": the edited metrics table replaces the
\* session's table.
SaveMeasurementChanges(i, column, value) ==
    /\ nops < MaxOps
    /\ i \in DOMAIN metrics.rows
    /\ metrics' = DataFrame(metrics.columns,
                            ReplaceTable(metrics.rows, i, column, value))
    /\ UNCHANGED <<activities, form_date, form>>
    /\ _save_data
    /\ Rendered(storage = "writable")
    /\ last' = Ran("Save Measurement Changes", form_date, <<i, column, value>>)
    /\ nops' = nops + 1

\* Save Activity Changes that also adds an edited calories value to the
\* active calories of the activity's date.
SaveActivityChanges_UpdatesActiveCalories(i, column, value) ==
    /\ nops < MaxOps
    /\ i \in DOMAIN activities.rows
    /\ activities' = DataFrame(activities.columns,
                               ReplaceTable(activities.rows, i, column, value))
    /\ metrics' = IF column = "Calories (kCal)"
                  THEN DataFrame(metrics.columns,
                                 UpdateActiveCalories(metrics.rows,
                                                      activities.rows[i]["Date"],
                                                      value[1]))
                  ELSE metrics
    /\ UNCHANGED <<form_date, form>>
    /\ _save_data
    /\ Rendered(storage = "writable")
    /\ last' = Ran("Save Activity Changes", form_date, <<i, column, value>>)
    /\ nops' = nops + 1

\* "Save Activity Changes": the edited activities table replaces the
\* session's table.
SaveActivityChanges(i, column, value) ==
    /\ nops < MaxOps
    /\ i \in DOMAIN activities.rows
    /\ activities' = DataFrame(activities.columns,
                               ReplaceTable(activities.rows, i, column, value))
    /\ UNCHANGED <<metrics, form_date, form>>
    /\ _save_data
    /\ Rendered(storage = "writable")
    /\ last' = Ran("Save Activity Changes", form_date, <<i, column, value>>)
    /\ nops' = nops + 1

\* A new browser session: st.session_state is empty, so __init__ loads both
\* tables from the files and the form is set up for the date input's value.
NewSession(date_to_edit_input) ==
    /\ metrics' = _load_metrics_data(metrics_file)
    /\ activities' = _load_activities_data(activities_file)
    /\ form_date' = date_to_edit_input
    /\ form' = FormDefaults(metrics', date_to_edit_input)
    /\ UNCHANGED <<metrics_file, activities_file, nops>>
    /\ Rendered(TRUE)
    /\ last' = [op |-> "New Session", date |-> date_to_edit_input, data |-> <<>>,
                again |-> FALSE, saved |-> TRUE]

Next ==
    \/ \E d \in Dates : SelectDate(d)
    \/ \E w \in WeightInputs, wa \in WaistInputs : SaveBodyMetrics(w, wa)
    \/ \E dc \in DailyCaloriesInputs, c \in CarbsInputs,
          p \in ProteinInputs, f \in FatInputs : SaveNutrition(dc, c, p, f)
    \/ \E t \in ActivityTypeInputs :
          \E a \in ActivityInputs(t), h \in HoursInputs, m \in MinutesInputs,
             s \in SecondsInputs, dist \in DistanceInputs,
             cal \in ActivityCaloriesInputs :
                AddActivity(t, a, h, m, s, dist, cal)
    \/ \E i \in 1 .. MaxOps + 2, e \in MetricsEdits :
          SaveMeasurementChanges(i, e[1], e[2])
    \/ \E i \in 1 .. MaxOps + 2, e \in ActivitiesEdits :
          SaveActivityChanges(i, e[1], e[2])
    \/ \E d \in Dates : NewSession(d)

Spec == Init /\ [][Next]_vars

\* The form operations alone: no table is replaced through an editor.
FormsNext ==
    \/ \E d \in Dates : SelectDate(d)
    \/ \E w \in WeightInputs, wa \in WaistInputs : SaveBodyMetrics(w, wa)
    \/ \E dc \in DailyCaloriesInputs, c \in CarbsInputs,
          p \in ProteinInputs, f \in FatInputs : SaveNutrition(dc, c, p, f)
    \/ \E t \in ActivityTypeInputs :
          \E a \in ActivityInputs(t), h \in HoursInputs, m \in MinutesInputs,
             s \in SecondsInputs, dist \in DistanceInputs,
             cal \in ActivityCaloriesInputs :
                AddActivity(t, a, h, m, s, dist, cal)
    \/ \E d \in Dates : NewSession(d)

SpecForms == Init /\ [][FormsNext]_vars

-----------------------------------------------------------------------------
\* The application with a data directory that may stop being writable: the
\* handlers' saves can raise.

\* The environment: the condition of the data directory changes.
StorageChanges(condition) ==
    /\ condition # storage
    /\ storage' = condition
    /\ UNCHANGED <<metrics, activities, metrics_file, activities_file, form_date,
                   form, today, widgets, overview, act, calendar_year,
                   calendar_month, last, nops>>

FaultsNext ==
    \/ Next
    \/ \E c \in StorageConditions : StorageChanges(c)

SpecFaults == Init /\ [][FaultsNext]_vars

-----------------------------------------------------------------------------
\* The overview on its own: the script's runs caused by the overview's
\* widgets, over the metrics tables the forms can have built around today.

OverviewTodays == {to_datetime(<<6, 15, 2024>>)}

\* The days around the edges of the windows that end today: the day before
\* the shortest horizon, its first day, the first day of the week, yesterday,
\* today and tomorrow.
OverviewDates(now) == {now - 8, now - 7, now - 6, now - 1, now, now + 1}

\* The weight and the daily calories of a record.
OverviewEntries == {<<None, None>>, <<Some(80), Some(2000)>>, <<Some(83), Some(2201)>>}

MAWindowInputs == {1, 2, 7}

\* The metrics record of `date` that the two forms leave with these values.
EnteredRow(date, entry) ==
    [c \in ToSet(METRICS_COLUMNS) |->
        IF c = "Date" THEN date
        ELSE IF c = "Weight (kg)" THEN entry[1]
        ELSE IF c = "Daily Calories (kCal)" THEN entry[2]
        ELSE None]

\* The table of one record per date of `dates`, in date order.
RECURSIVE EnteredRows(_, _)
EnteredRows(dates, entries) ==
    IF dates = {} THEN <<>>
    ELSE LET d == CHOOSE x \in dates : \A y \in dates : x <= y
         IN  <<EnteredRow(d, entries[d])>> \o EnteredRows(dates \ {d}, entries)

InitOverview ==
    /\ today \in OverviewTodays
    /\ \E dates \in SUBSET OverviewDates(today) :
          \E entries \in [dates -> OverviewEntries] :
             metrics = DataFrame(METRICS_COLUMNS, EnteredRows(dates, entries))
    /\ activities = _load_activities_data(NotFound)
    /\ metrics_file = to_csv(metrics)
    /\ activities_file = to_csv(activities)
    /\ form_date = today
    /\ form = FormDefaults(metrics, form_date)
    /\ storage = "writable"
    /\ widgets = DefaultWidgets
    /\ overview = _display_overview(metrics, today, widgets)
    /\ act = NoDuration
    /\ calendar_year = None
    /\ calendar_month = None
    /\ last = [op |-> "load", date |-> form_date, data |-> <<>>, again |-> FALSE,
               saved |-> TRUE]
    /\ nops = 0

\* A widget of the overview is changed: the script runs again with the
\* widget's new value.
ChangeWidgets(w) ==
    /\ widgets' = w
    /\ overview' = _display_overview(metrics, today, w)
    /\ UNCHANGED <<metrics, activities, metrics_file, activities_file,
                   form_date, form, storage, today, act, calendar_year,
                   calendar_month, last, nops>>

SelectHorizon(horizon) ==
    /\ horizon # widgets.horizon
    /\ ChangeWidgets([widgets EXCEPT !.horizon = horizon])

SetMovingAverageWindow(ma_window) ==
    /\ ma_window # widgets.ma_window
    /\ ChangeWidgets([widgets EXCEPT !.ma_window = ma_window])

ToggleMovingAverage ==
    ChangeWidgets([widgets EXCEPT !.show_ma = ~widgets.show_ma])

OverviewNext ==
    \/ \E h \in ToSet(horizon_options) : SelectHorizon(h)
    \/ \E n \in MAWindowInputs : SetMovingAverageWindow(n)
    \/ ToggleMovingAverage

SpecOverview == InitOverview /\ [][OverviewNext]_vars

-----------------------------------------------------------------------------
\* The duration of an activity on its own: the three inputs of the activity
\* form, the seconds stored for them, and the seconds shown again as hours,
\* minutes and seconds.

\* max_value of the inputs "hrs", "mins" and "secs".
MaxHours == 23

MaxMinutes == 59

MaxSeconds == 59

\* duration_s of the Add Activity handler.
duration_s(hours, minutes, seconds) == (hours * 3600) + (minutes * 60) + seconds

\* _seconds_to_hms with the hours taken out of the minutes only by division.
_seconds_to_hms_MinutesOfTotal(seconds_val) ==
    IF isna(seconds_val) \/ seconds_val[1] = 0
    THEN <<0, 0, 0>>
    ELSE <<seconds_val[1] \div 3600, seconds_val[1] \div 60, seconds_val[1] % 60>>

\* _seconds_to_hms: (0, 0, 0) for a null or zero total.
_seconds_to_hms(seconds_val) ==
    IF isna(seconds_val) \/ seconds_val[1] = 0
    THEN <<0, 0, 0>>
    ELSE LET hours   == seconds_val[1] \div 3600
             minutes == (seconds_val[1] % 3600) \div 60
             secs    == seconds_val[1] % 60
         IN  <<hours, minutes, secs>>

InitDuration ==
    /\ metrics_file = NotFound
    /\ activities_file = NotFound
    /\ metrics = _load_metrics_data(metrics_file)
    /\ activities = _load_activities_data(activities_file)
    /\ form_date \in {CHOOSE d \in Dates : TRUE}
    /\ form = FormDefaults(metrics, form_date)
    /\ storage = "writable"
    /\ today = form_date
    /\ widgets = DefaultWidgets
    /\ overview = _display_overview(metrics, today, widgets)
    /\ \E h \in 0 .. MaxHours, m \in 0 .. MaxMinutes, s \in 0 .. MaxSeconds :
          act = [NoDuration EXCEPT !.hours = h, !.minutes = m, !.seconds = s]
    /\ calendar_year = None
    /\ calendar_month = None
    /\ last = [op |-> "load", date |-> form_date, data |-> <<>>, again |-> FALSE,
               saved |-> TRUE]
    /\ nops = 0

\* The form is submitted: the total of its three inputs is what is stored.
StoreDuration ==
    /\ act.duration_s = None
    /\ act' = [act EXCEPT
                 !.duration_s = Some(duration_s(act.hours, act.minutes, act.seconds)),
                 !.hms = <<>>]
    /\ UNCHANGED <<metrics, activities, metrics_file, activities_file, form_date,
                   form, storage, today, widgets, overview, calendar_year,
                   calendar_month, last, nops>>

\* The stored total (null while nothing is stored) is decomposed.
ShowDuration ==
    /\ act.hms = <<>>
    /\ act' = [act EXCEPT !.hms = _seconds_to_hms(act.duration_s)]
    /\ UNCHANGED <<metrics, activities, metrics_file, activities_file, form_date,
                   form, storage, today, widgets, overview, calendar_year,
                   calendar_month, last, nops>>

DurationNext ==
    \/ StoreDuration
    \/ ShowDuration

SpecDuration == InitDuration /\ [][DurationNext]_vars

-----------------------------------------------------------------------------
\* The Calendar View page.  The page stops before anything below unless the
\* session holds a non-empty 'fitness_data' table, which the session is
\* taken to hold here.

\* Number of presses of the two month buttons in one behaviour.
MaxPresses == 4

\* today.year and today.month when the page is first opened.
CalendarYears == {2024, 2025}

CalendarMonths == 1 .. 12

\* History of a run of the page: what ran and the cursor it started from.
RanPage(op) ==
    [op |-> op, date |-> form_date, data |-> <<calendar_year, calendar_month>>,
     again |-> FALSE, saved |-> TRUE]

\* The page runs for the first time in the session: the cursor is set to
\* the current month.
OpenCalendarView(year, month) ==
    /\ calendar_year = None
    /\ calendar_month = None
    /\ calendar_year' = Some(year)
    /\ calendar_month' = Some(month)
    /\ last' = RanPage("Calendar View")
    /\ UNCHANGED <<metrics, activities, metrics_file, activities_file, form_date,
                   form, storage, today, widgets, overview, act, nops>>

\* Previous Month that wraps to December of the same year.
PreviousMonth_KeepsYear ==
    /\ calendar_month # None
    /\ nops < MaxPresses
    /\ IF calendar_month = Some(1)
       THEN calendar_month' = Some(12) /\ calendar_year' = calendar_year
       ELSE calendar_month' = Some(calendar_month[1] - 1) /\ calendar_year' = calendar_year
    /\ last' = RanPage("Previous Month")
    /\ nops' = nops + 1
    /\ UNCHANGED <<metrics, activities, metrics_file, activities_file, form_date,
                   form, storage, today, widgets, overview, act>>

\* "Previous Month" pressed.
PreviousMonth ==
    /\ calendar_month # None
    /\ nops < MaxPresses
    /\ IF calendar_month = Some(1)
       THEN /\ calendar_month' = Some(12)
            /\ calendar_year' = Some(calendar_year[1] - 1)
       ELSE /\ calendar_month' = Some(calendar_month[1] - 1)
            /\ calendar_year' = calendar_year
    /\ last' = RanPage("Previous Month")
    /\ nops' = nops + 1
    /\ UNCHANGED <<metrics, activities, metrics_file, activities_file, form_date,
                   form, storage, today, widgets, overview, act>>

\* "Next Month" pressed.
NextMonth ==
    /\ calendar_month # None
    /\ nops < MaxPresses
    /\ IF calendar_month = Some(12)
       THEN /\ calendar_month' = Some(1)
            /\ calendar_year' = Some(calendar_year[1] + 1)
       ELSE /\ calendar_month' = Some(calendar_month[1] + 1)
            /\ calendar_year' = calendar_year
    /\ last' = RanPage("Next Month")
    /\ nops' = nops + 1
    /\ UNCHANGED <<metrics, activities, metrics_file, activities_file, form_date,
                   form, storage, today, widgets, overview, act>>

CalendarNext ==
    \/ \E y \in CalendarYears, m \in CalendarMonths : OpenCalendarView(y, m)
    \/ PreviousMonth
    \/ NextMonth

SpecCalendar == Init /\ [][CalendarNext]_vars

-----------------------------------------------------------------------------
\* Vocabulary of the properties.

FormSaves == {"Save Body Metrics", "Save Nutrition"}

\* The step just taken ran a handler (it was not a change of date).
Handled == nops' = nops + 1

\* The values of column `column`, None counted as `none`, summed over rows.
RECURSIVE SumColumn(_, _, _)
SumColumn(rows, column, positive_only) ==
    IF rows = <<>> THEN 0
    ELSE LET cell == Head(rows)[column]
             v    == IF isna(cell) THEN 0 ELSE cell[1]
         IN  (IF positive_only /\ v <= 0 THEN 0 ELSE v)
             + SumColumn(Tail(rows), column, positive_only)

NoDuplicateDates(rows) ==
    \A i, j \in DOMAIN rows : rows[i]["Date"] = rows[j]["Date"] => i = j

IsSortedByDate(rows) ==
    \A i, j \in DOMAIN rows : i < j => rows[i]["Date"] <= rows[j]["Date"]

\* The rows of every date but `date`, in table order.
RowsNotOn(rows, date) ==
    LET Other(r) == r["Date"] # date
    IN  SelectSeq(rows, Other)

-----------------------------------------------------------------------------
\* C1 (as stated): after Add Activity with calories > 0, the metrics record
\* of the activity's date has Active Calories equal to the sum of Calories
\* over all activities of that date.
C1_ActiveCaloriesIsSumOfAll ==
    (last.op = "Add Activity" /\ last.data["Calories (kCal)"][1] > 0) =>
        /\ Len(RowsOn(metrics.rows, last.date)) = 1
        /\ RowsOn(metrics.rows, last.date)[1]["Active Calories (kCal)"]
             = Some(SumColumn(RowsOn(activities.rows, last.date),
                              "Calories (kCal)", FALSE))

\* C1 (amended): after Add Activity with calories > 0, the metrics record
\* of the activity's date has Active Calories equal to the sum of the
\* positive Calories of the activities of that date: an activity entered
\* with zero or negative calories is logged and not added.
C1_ActiveCaloriesIsSumOfPositive ==
    (last.op = "Add Activity" /\ last.data["Calories (kCal)"][1] > 0) =>
        /\ Len(RowsOn(metrics.rows, last.date)) = 1
        /\ RowsOn(metrics.rows, last.date)[1]["Active Calories (kCal)"]
             = Some(SumColumn(RowsOn(activities.rows, last.date),
                              "Calories (kCal)", TRUE))

\* C1 witness: a second positive activity has just been added to a date.
C1_Witness ==
    /\ last.op = "Add Activity"
    /\ last.data["Calories (kCal)"] = Some(150)
    /\ Len(RowsOn(activities.rows, last.date)) = 2
    /\ RowsOn(metrics.rows, last.date)[1]["Active Calories (kCal)"] = Some(450)

-----------------------------------------------------------------------------
\* C2: a form save (Save Body Metrics, Save Nutrition) for a date leaves the
\* record of that date holding the submitted value in each supplied field,
\* leaves every other field of that record as it was (None in a record the
\* save created), and leaves the records of every other date unchanged.
C2_FormSaveFrame ==
    [][ (Handled /\ last'.op \in FormSaves) =>
            LET data   == last'.data
                before == RowsOn(metrics.rows, last'.date)
                after  == RowsOn(metrics'.rows, last'.date)
            IN  /\ Len(after) = (IF before = <<>> THEN 1 ELSE Len(before))
                /\ \A k \in DOMAIN after : \A c \in ToSet(METRICS_COLUMNS) :
                      after[k][c] = (IF c \in DOMAIN data THEN data[c]
                                     ELSE IF before = <<>> THEN None
                                     ELSE before[k][c])
                /\ RowsNotOn(metrics'.rows, last'.date)
                     = RowsNotOn(metrics.rows, last'.date) ]_vars

\* C2 witness: Save Nutrition has just stored 2000 kCal in a record that
\* keeps its weight, beside the record of another date.
C2_Witness ==
    /\ last.op = "Save Nutrition"
    /\ Len(metrics.rows) = 2
    /\ RowsOn(metrics.rows, last.date)[1]["Daily Calories (kCal)"] = Some(2000)
    /\ notna(RowsOn(metrics.rows, last.date)[1]["Weight (kg)"])
    /\ RowsNotOn(metrics.rows, last.date) # <<>>

\* C3: through the form operations the metrics table never holds two rows
\* of one date: a submission for a date that has a record re-uses it.
C3_OneRowPerDate == NoDuplicateDates(metrics.rows)

\* C3 witness: Add Activity has just added calories to the record a date
\* already had (it holds a weight), and the date still has one record.
C3_Witness ==
    /\ last.op = "Add Activity"
    /\ Len(RowsOn(metrics.rows, last.date)) = 1
    /\ notna(RowsOn(metrics.rows, last.date)[1]["Weight (kg)"])
    /\ notna(RowsOn(metrics.rows, last.date)[1]["Active Calories (kCal)"])

\* C4: a form save submitted again with the same date and the same values
\* leaves the metrics table, and the file written from it, as the first
\* submission left them.
C4_FormSaveIdempotent ==
    [][ (Handled /\ last'.op \in FormSaves /\ last'.again) =>
            /\ metrics' = metrics
            /\ metrics_file' = metrics_file ]_vars

\* C4 witness: Save Body Metrics has run twice in a row with the same
\* values for a date that had no record before the first of them.
C4_Witness ==
    /\ last.op = "Save Body Metrics"
    /\ last.again
    /\ nops = 2
    /\ Len(metrics.rows) = 1
    /\ metrics.rows[1]["Weight (kg)"] = Some(80)

\* The sequence without its k-th element.
RemoveAt(seq, k) == SubSeq(seq, 1, k - 1) \o SubSeq(seq, k + 1, Len(seq))

\* C5: Add Activity adds exactly one entry, the submitted one, to the
\* activities log and keeps every earlier entry, also when an equal entry
\* is in the log; and no step makes the log shorter.
C5_ActivitiesAppendOnly ==
    [][ /\ Len(activities'.rows) >= Len(activities.rows)
        /\ (Handled /\ last'.op = "Add Activity") =>
              \E k \in DOMAIN activities'.rows :
                  /\ activities'.rows[k] = last'.data
                  /\ RemoveAt(activities'.rows, k) = activities.rows ]_vars

\* C5 witness: the activity just added equals the one added before it, and
\* the log holds both.
C5_Witness ==
    /\ last.op = "Add Activity"
    /\ last.again
    /\ Len(activities.rows) = 2
    /\ activities.rows[1] = activities.rows[2]

-----------------------------------------------------------------------------
\* C6: after load and after every handler, the metrics table and the
\* activities table of the session are each sorted by date ascending.
C6_TablesSortedByDate ==
    /\ IsSortedByDate(metrics.rows)
    /\ IsSortedByDate(activities.rows)

\* C6 witness: an activity has just been added for the earlier date to a
\* log that held an activity of the later date.
C6_Witness ==
    /\ last.op = "Add Activity"
    /\ last.date = 31
    /\ Len(activities.rows) = 2
    /\ activities.rows[1] = last.data
    /\ activities.rows[2]["Date"] = 32

\* C7: Add Activity with calories > 0 for a date without a metrics record
\* creates exactly one record of that date, with Active Calories equal to
\* the activity's calories and every other field None; for a date with a
\* record, the calories are added to its Active Calories, None counted as 0.
C7_ActiveCaloriesUpdate ==
    [][ (Handled /\ last'.op = "Add Activity"
                 /\ last'.data["Calories (kCal)"][1] > 0) =>
            LET calories == last'.data["Calories (kCal)"][1]
                before   == RowsOn(metrics.rows, last'.date)
                after    == RowsOn(metrics'.rows, last'.date)
                current  == before[1]["Active Calories (kCal)"]
            IN  IF before = <<>>
                THEN /\ Len(after) = 1
                     /\ \A c \in ToSet(METRICS_COLUMNS) :
                           after[1][c] = (IF c = "Date" THEN last'.date
                                          ELSE IF c = "Active Calories (kCal)"
                                               THEN Some(calories)
                                          ELSE None)
                ELSE /\ Len(after) = Len(before)
                     /\ \A k \in DOMAIN after :
                           after[k]["Active Calories (kCal)"]
                             = Some((IF isna(current) THEN 0 ELSE current[1])
                                    + calories) ]_vars

\* C7 witness: 300 and then 150 kCal were added for a date that had no
\* record: its record holds 450 and nothing else.
C7_Witness ==
    /\ last.op = "Add Activity"
    /\ last.data["Calories (kCal)"] = Some(150)
    /\ activities.rows[1]["Calories (kCal)"] = Some(300)
    /\ Len(metrics.rows) = 1
    /\ metrics.rows[1]["Date"] = last.date
    /\ metrics.rows[1]["Active Calories (kCal)"] = Some(450)
    /\ \A c \in ToSet(METRICS_COLUMNS) \ {"Date", "Active Calories (kCal)"} :
          isna(metrics.rows[1][c])

\* C8 (as stated): saving both tables and loading them again gives the
\* tables of the session, row for row and field for field.
C8_SaveLoadRoundTrip ==
    /\ _load_metrics_data(to_csv(metrics)) = metrics
    /\ _load_activities_data(to_csv(activities)) = activities

\* C9: a missing file loads as the empty table with the canonical columns,
\* and a form submission made on it is stored: the tables keep the
\* canonical columns in every row, the submitted record is in its table,
\* and both files exist after the save.
C9_MissingSourceIsEmptyStore ==
    /\ (last.op \in {"load", "New Session"} /\ ~metrics_file.exists) =>
           metrics = DataFrame(METRICS_COLUMNS, <<>>)
    /\ (last.op \in {"load", "New Session"} /\ ~activities_file.exists) =>
           activities = DataFrame(ACTIVITIES_COLUMNS, <<>>)
    /\ (last.op \in FormSaves \cup {"Add Activity"}) =>
           /\ metrics.columns = METRICS_COLUMNS
           /\ activities.columns = ACTIVITIES_COLUMNS
           /\ \A i \in DOMAIN metrics.rows :
                 DOMAIN metrics.rows[i] = ToSet(METRICS_COLUMNS)
           /\ \A i \in DOMAIN activities.rows :
                 DOMAIN activities.rows[i] = ToSet(ACTIVITIES_COLUMNS)
           /\ last.op \in FormSaves => RowsOn(metrics.rows, last.date) # <<>>
           /\ last.op = "Add Activity" =>
                 \E i \in DOMAIN activities.rows : activities.rows[i] = last.data
           /\ metrics_file.exists
           /\ activities_file.exists

\* C9 witness: the first submission after both files were missing, Save
\* Body Metrics, has stored its one record and written both files.
C9_Witness ==
    /\ last.op = "Save Body Metrics"
    /\ nops = 1
    /\ Len(metrics.rows) = 1
    /\ activities.rows = <<>>
    /\ metrics_file.exists
    /\ Len(metrics_file.lines) = 1

\* C10 (as stated): Save Measurement Changes with an edited table that
\* holds two rows of one date is rejected: the session's metrics table and
\* the metrics file stay as they were.
C10_DuplicateDatesRejected ==
    [][ (Handled /\ last'.op = "Save Measurement Changes"
                 /\ ~NoDuplicateDates(data_editor(metrics.rows, last'.data[1],
                                                  last'.data[2], last'.data[3]))) =>
            /\ metrics' = metrics
            /\ metrics_file' = metrics_file ]_vars

-----------------------------------------------------------------------------
\* Vocabulary of the overview's properties.

\* The weights of the records that have one, in date order.
WeightObservations(rows) ==
    SelectSeq(Column(sort_values(rows), "Weight (kg)"), notna)

\* The last run of the script showed the metric cells of the overview.
CellsShown ==
    overview.status \in {"shown", "No data in the selected time horizon"}

\* C11: the latest and the previous weight shown are the weights of the
\* chronologically last and second-last metrics records that have a weight:
\* records without one are skipped, and the latest weight shown is never
\* null while some record has a weight.
C11_LatestWeightSkipsNulls ==
    LET obs == WeightObservations(metrics.rows)
        n   == Len(obs)
    IN  (CellsShown /\ NoDuplicateDates(metrics.rows) /\ n >= 1) =>
            /\ overview.latest_weight = obs[n]
            /\ n >= 2 => overview.previous_weight = obs[n - 1]

\* C12: the delta shown is 0 when there are fewer than two weight
\* observations (for one, exactly one metrics record), and the latest
\* weight minus the previous one when there are two or more.  Stated for
\* the tables in which every record has a weight, where the observations
\* are the records.
C12_DeltaOfLastTwoObservations ==
    LET obs == WeightObservations(metrics.rows)
        n   == Len(obs)
    IN  (CellsShown /\ NoDuplicateDates(metrics.rows) /\ n = Len(metrics.rows)) =>
            overview.delta = IF n < 2 THEN Some(0)
                             ELSE Some(obs[n][1] - obs[n - 1][1])

RECURSIVE SumOver(_, _)
\* The sum of f over the finite set S.
SumOver(S, f) ==
    IF S = {} THEN 0
    ELSE LET x == CHOOSE y \in S : TRUE
         IN  f[x] + SumOver(S \ {x}, f)

\* The records of the seven days ending today that have daily calories.
WeekObservations ==
    {i \in DOMAIN metrics.rows :
        /\ metrics.rows[i]["Date"] >= today - 6
        /\ metrics.rows[i]["Date"] <= today
        /\ notna(metrics.rows[i]["Daily Calories (kCal)"])}

\* C13: the weekly mean of Daily Calories is the mean of the non-null values
\* of the records dated from six days before today to today, both included
\* (shown rounded to the nearest integer); with no such value the cell shows
\* "N/A": no number, no NaN.
C13_WeeklyMeanOrUnavailable ==
    LET n     == Cardinality(WeekObservations)
        total == SumOver(WeekObservations,
                         [i \in DOMAIN metrics.rows |->
                             IF i \in WeekObservations
                             THEN metrics.rows[i]["Daily Calories (kCal)"][1]
                             ELSE 0])
        shown == overview.avg_calories
    IN  CellsShown =>
            IF n = 0
            THEN shown.text = "N/A" /\ shown.value = None /\ shown.mean = None
            ELSE /\ shown.text = "kCal"
                 /\ shown.mean # None
                 /\ shown.mean[2] > 0
                 /\ shown.mean[1] * n = total * shown.mean[2]
                 /\ shown.value # None
                 /\ 2 * (shown.value[1] * n - total) <= n
                 /\ 2 * (total - shown.value[1] * n) <= n

\* C13 witness: a mean of two values is shown, not a whole number, while a
\* record of the week has no calories and records outside the week have.
C13_Witness ==
    /\ CellsShown
    /\ Cardinality(WeekObservations) = 2
    /\ overview.avg_calories.mean = <<4201, 2>>
    /\ \E i \in DOMAIN metrics.rows :
          /\ metrics.rows[i]["Date"] = today
          /\ isna(metrics.rows[i]["Daily Calories (kCal)"])
    /\ \E i, j \in DOMAIN metrics.rows :
          /\ metrics.rows[i]["Date"] = today - 7
          /\ metrics.rows[j]["Date"] = today + 1
          /\ notna(metrics.rows[i]["Daily Calories (kCal)"])
          /\ notna(metrics.rows[j]["Daily Calories (kCal)"])

\* C14: the moving average has one value per row of the date-sorted chart
\* series; each is the mean of the non-null weights among the last
\* ma_window rows ending at its row, at least one value being enough (NaN
\* when there is none); with a window of 1 it is the row's own weight where
\* the row has one.
C14_RollingMean ==
    LET chart == overview.chart
        MA    == overview.MA
        w     == widgets.ma_window
        weight == [j \in DOMAIN chart |->
                      IF notna(chart[j].Weight) THEN chart[j].Weight[1] ELSE 0]
    IN  (overview.status = "shown" /\ widgets.show_ma) =>
            /\ Len(MA) = Len(chart)
            /\ \A i, j \in DOMAIN chart : i < j => chart[i].Date <= chart[j].Date
            /\ \A i \in DOMAIN chart :
                  LET window == {j \in DOMAIN chart :
                                    j > i - w /\ j <= i /\ notna(chart[j].Weight)}
                  IN  /\ window = {} => MA[i] = None
                      /\ window # {} =>
                            /\ MA[i] # None
                            /\ MA[i][2] > 0
                            /\ MA[i][1] * Cardinality(window)
                                 = SumOver(window, weight) * MA[i][2]
                      /\ (w = 1 /\ notna(chart[i].Weight)) =>
                            MA[i] = <<chart[i].Weight[1], 1>>

\* C14 witness: a window of two rows over a series of at least three, in
\* which one value is the mean of two weights, one the mean of the single
\* weight of its window, and one NaN.
C14_Witness ==
    /\ overview.status = "shown"
    /\ widgets.show_ma
    /\ widgets.ma_window = 2
    /\ Len(overview.chart) >= 3
    /\ \E i, j, k \in DOMAIN overview.MA :
          /\ overview.MA[i] = <<163, 2>>
          /\ overview.MA[j] # None /\ overview.MA[j][2] = 1 /\ j > 1
          /\ overview.MA[k] = None /\ k > 1

\* C15: for a horizon of N days (1 Week 7, 2 Weeks 14, 1 Month 31, 3 Months
\* 90, 6 Months 180, 1 Year 365, 5 Years 1825) the window starts N days
\* before today, for All Time at the earliest date of the store; it ends
\* today, and the chart holds the records dated within it, both ends
\* included.  With today 2024-06-15, 1 Week starts on 2024-06-08.
C15_HorizonWindow ==
    LET days == [h \in ToSet(horizon_options) |->
                    CASE h = "1 Week"   -> 7
                      [] h = "2 Weeks"  -> 14
                      [] h = "1 Month"  -> 31
                      [] h = "3 Months" -> 90
                      [] h = "6 Months" -> 180
                      [] h = "1 Year"   -> 365
                      [] h = "5 Years"  -> 1825
                      [] OTHER          -> 0]
        stored == {metrics.rows[i]["Date"] : i \in DOMAIN metrics.rows}
        h      == widgets.horizon
    IN  CellsShown =>
            /\ overview.start_date # None
            /\ h # "All Time" => overview.start_date[1] = today - days[h]
            /\ h = "All Time" =>
                  /\ overview.start_date[1] \in stored
                  /\ \A d \in stored : overview.start_date[1] <= d
            /\ {overview.chart[i].Date : i \in DOMAIN overview.chart}
                 = {d \in stored : overview.start_date[1] <= d /\ d <= today}
            /\ (h = "1 Week" /\ strftime(today) = <<6, 15, 2024>>) =>
                  strftime(overview.start_date[1]) = <<6, 8, 2024>>

\* C15 witness: 1 Week on 2024-06-15 with records on 2024-06-07, 2024-06-08,
\* 2024-06-15 and 2024-06-16: the chart holds the two in the middle.
C15_Witness ==
    /\ overview.status = "shown"
    /\ widgets.horizon = "1 Week"
    /\ strftime(today) = <<6, 15, 2024>>
    /\ {today - 8, today - 7, today, today + 1}
         \subseteq {metrics.rows[i]["Date"] : i \in DOMAIN metrics.rows}
    /\ {overview.chart[i].Date : i \in DOMAIN overview.chart} = {today - 7, today}

\* C16: hours 0..23, minutes 0..59 and seconds 0..59 stored as one total of
\* seconds and decomposed again give the same hours, minutes and seconds
\* (1 h 23 min 45 s is stored as 5025 and shown as 1, 23, 45); a null total
\* is shown as 0, 0, 0.
C16_DurationRoundTrip ==
    /\ (act.duration_s # None /\ act.hms # <<>>) =>
            act.hms = <<act.hours, act.minutes, act.seconds>>
    /\ (act.duration_s # None /\ <<act.hours, act.minutes, act.seconds>> = <<1, 23, 45>>) =>
            act.duration_s = Some(5025)
    /\ (act.duration_s = None /\ act.hms # <<>>) => act.hms = <<0, 0, 0>>

\* C16 witness: 1 h 23 min 45 s has been stored and decomposed.
C16_Witness ==
    /\ act.duration_s = Some(5025)
    /\ act.hms = <<1, 23, 45>>

\* The session value behind each field of the two metrics forms.
FormKey ==
    ("Weight (kg)" :> "weight_kg") @@ ("Waist (cm)" :> "waist_cm")
    @@ ("Daily Calories (kCal)" :> "daily_calories") @@ ("Carbs (g)" :> "carbs")
    @@ ("Protein (g)" :> "protein") @@ ("Fat (g)" :> "fat")

\* C17: a form save whose value for a field is unset (null) does not
\* overwrite a non-null value stored in that field of the selected date's
\* record.  Stated for the fields the user left as the form showed them:
\* the cached default was null, the record has gained a value since (through
\* Save Measurement Changes), and the save keeps that value.
C17_UnsetFormValueKeepsStored ==
    [][(Handled /\ last'.op \in FormSaves) =>
          \A c \in (DOMAIN last'.data) \ {"Date"} :
             \A i \in DOMAIN metrics.rows :
                (/\ metrics.rows[i]["Date"] = last'.date
                 /\ notna(metrics.rows[i][c])
                 /\ isna(form[FormKey[c]])
                 /\ isna(last'.data[c]))
                => \A j \in DOMAIN metrics'.rows :
                      metrics'.rows[j]["Date"] = last'.date
                      => metrics'.rows[j][c] = metrics.rows[i][c]]_vars

Edits ==
    FormSaves \cup {"Add Activity", "Save Measurement Changes", "Save Activity Changes"}

\* The session's tables hold what the handler recorded in `last` put in.
HoldsEdit ==
    CASE last.op \in FormSaves ->
            \E i \in DOMAIN metrics.rows :
               /\ metrics.rows[i]["Date"] = last.date
               /\ \A c \in DOMAIN last.data : metrics.rows[i][c] = last.data[c]
      [] last.op = "Add Activity" ->
            /\ \E i \in DOMAIN activities.rows : activities.rows[i] = last.data
            /\ last.data["Calories (kCal)"][1] > 0 =>
                  \E i \in DOMAIN metrics.rows :
                     /\ metrics.rows[i]["Date"] = last.date
                     /\ notna(metrics.rows[i]["Active Calories (kCal)"])
      [] last.op = "Save Measurement Changes" ->
            \E i \in DOMAIN metrics.rows : metrics.rows[i][last.data[2]] = last.data[3]
      [] last.op = "Save Activity Changes" ->
            \E i \in DOMAIN activities.rows :
               activities.rows[i][last.data[2]] = last.data[3]
      [] OTHER -> TRUE

\* C18: after every completed edit (its save has returned) the persisted
\* metrics and activities tables are the in-memory tables, the edit
\* included: the merge comes before the persist, and the persist is done
\* before anything else is accepted.
C18_PersistedEqualsInMemory ==
    (last.op \in Edits /\ last.saved) =>
        /\ metrics_file = to_csv(metrics)
        /\ activities_file = to_csv(activities)
        /\ HoldsEdit

\* C18 witness: an Add Activity has completed as the second handler of the
\* run, the directory being writable; both tables have rows.
C18_Witness ==
    /\ last.op = "Add Activity"
    /\ last.saved
    /\ nops = 2
    /\ Len(activities.rows) = 1
    /\ metrics.rows # <<>>
    /\ metrics_file = to_csv(metrics)
    /\ activities_file = to_csv(activities)

\* C19: when the save of an edit fails, while the metrics table is written
\* or, the metrics table written, while the activities table is written,
\* the in-memory tables still hold the edit (nothing is rolled back); the
\* file that was not reached is not written, and nothing writes the files
\* until the next handler runs (no retry).
C19_FailedSaveKeepsEdit ==
    [][/\ (Handled /\ ~last'.saved) =>
             /\ HoldsEdit'
             /\ storage = "activities unwritable" => metrics_file' = to_csv(metrics')
             /\ storage = "metrics unwritable" => activities_file' = activities_file
       /\ ~Handled => UNCHANGED <<metrics_file, activities_file>>]_vars

\* C19 witness: Add Activity has failed on the activities file after the
\* metrics file was written: the activity is in memory and not in the file.
C19_Witness ==
    /\ last.op = "Add Activity"
    /\ ~last.saved
    /\ HoldsEdit
    /\ metrics.rows # <<>>
    /\ metrics_file = to_csv(metrics)
    /\ activities_file # to_csv(activities)

\* C20: Save Activity Changes leaves the in-memory metrics table, every
\* Active Calories value included, as it was; Save Measurement Changes
\* leaves the in-memory activities table as it was.
C20_BulkReplaceFrame ==
    [][/\ (Handled /\ last'.op = "Save Activity Changes") => metrics' = metrics
       /\ (Handled /\ last'.op = "Save Measurement Changes") => activities' = activities]_vars

\* C20 witness: the calories of an activity have been changed through the
\* activities editor, and the Active Calories of its date are still what
\* Add Activity made them.
C20_Witness ==
    /\ last.op = "Save Activity Changes"
    /\ last.data[2] = "Calories (kCal)"
    /\ \E i \in DOMAIN activities.rows, j \in DOMAIN metrics.rows :
          /\ activities.rows[i]["Calories (kCal)"] = Some(150)
          /\ metrics.rows[j]["Date"] = activities.rows[i]["Date"]
          /\ metrics.rows[j]["Active Calories (kCal)"] = Some(300)

MonthButtons == {"Previous Month", "Next Month"}

\* C21: the month cursor stays valid under any sequence of Previous Month
\* and Next Month presses: calendar_month is in 1..12; a press moves the
\* month by one within the year, or wraps between December and January
\* with the year moved by exactly one in the button's direction, and the
\* year does not change otherwise; Previous Month followed by Next Month,
\* or the reverse, is back at the (year, month) it started from.
C21_MonthCursorValid ==
    /\ [](calendar_month # None => calendar_month[1] \in 1 .. 12)
    /\ [][(Handled /\ last'.op \in MonthButtons) =>
             LET y  == calendar_year[1]
                 m  == calendar_month[1]
                 y2 == calendar_year'[1]
                 m2 == calendar_month'[1]
                 wraps == (m = 12 /\ m2 = 1) \/ (m = 1 /\ m2 = 12)
             IN  /\ y2 # y <=> wraps
                 /\ last'.op = "Next Month" =>
                       IF m = 12 THEN m2 = 1 /\ y2 = y + 1
                       ELSE m2 = m + 1 /\ y2 = y
                 /\ last'.op = "Previous Month" =>
                       IF m = 1 THEN m2 = 12 /\ y2 = y - 1
                       ELSE m2 = m - 1 /\ y2 = y
                 /\ (last.op \in MonthButtons /\ last.op # last'.op) =>
                       <<calendar_year', calendar_month'>> = last.data]_vars

\* C21 witness: from January 2024, Previous Month has wrapped to December
\* 2023 and Next Month has come back to January 2024.
C21_Witness ==
    /\ last.op = "Next Month"
    /\ last.data = <<Some(2023), Some(12)>>
    /\ calendar_year = Some(2024)
    /\ calendar_month = Some(1)
    /\ nops = 2

=============================================================================
